---- MODULE Spec2Model ----
(***************************************************************************)
(* Model of the guide cache of smm-telegram-bot (src/bot.py): the globals  *)
(* main_buttons / submenus / texts / main_menu / last_modified_time, the   *)
(* TTL cache, load_guides with its retry loop, and the coroutines that     *)
(* call it (on_startup, cmd_reload, process_callback, the periodic job).   *)
(*                                                                         *)
(* Strings are sequences of one-character strings, so that strip(),        *)
(* lower() and slicing are computed.  Python dicts are sequences of        *)
(* [k, v] records in insertion order.  None is modelled by the falsy       *)
(* value of the type at hand (0 for the version token, NoMenu for the      *)
(* keyboard, <<>> for a parent label).                                     *)
(***************************************************************************)
EXTENDS Integers, Sequences, FiniteSets, TLC

(* ------------------------------ bounds -------------------------------- *)
\* load_guides / periodic-job invocations in one behaviour (startup included);
\* all but the startup one can be in flight at the same time
MaxCalls == 3
\* edits of the sheet in one behaviour
MaxEdits == 1
\* rows of a fetched range handed to the parser on its own
MaxRows == 3
\* users whose updates are followed
MaxUsers == 2
\* updates being handled at the same time
MaxHandlers == 2
\* characters of a phone number typed in
MaxInput == 3
\* updates fed in one behaviour while the handlers' awaits are followed
MaxFeeds == 3
\* updates fed in one behaviour while the limiter is followed
MaxBurst == 11
\* the clock stops here, in seconds
MaxTime == 1800

(* --------------------------- small helpers ---------------------------- *)
Min(a, b) == IF a < b THEN a ELSE b
Max(a, b) == IF a > b THEN a ELSE b

(* ------------------------------ strings ------------------------------- *)
IsSpace(c) == c \in {" ", "\t", "\n"}

RECURSIVE LStrip(_)
LStrip(s) == IF s # <<>> /\ IsSpace(Head(s)) THEN LStrip(Tail(s)) ELSE s

RECURSIVE RStrip(_)
RStrip(s) ==
    IF s # <<>> /\ IsSpace(s[Len(s)]) THEN RStrip(SubSeq(s, 1, Len(s) - 1)) ELSE s

\* no strip at all
NoStrip(s) == s

\* str.strip()
Strip(s) == RStrip(LStrip(s))

\* str.lower() on one character, over the letters the sheets below use
LowerChar(c) ==
    CASE c = "A" -> "a"
      [] c = "B" -> "b"
      [] c = "C" -> "c"
      [] c = "N" -> "n"
      [] c = "O" -> "o"
      [] c = "T" -> "t"
      [] c = "U" -> "u"
      [] OTHER -> c

\* no lower-casing at all
NoLower(s) == s

\* str.lower()
Lower(s) == [i \in 1..Len(s) |-> LowerChar(s[i])]

\* the characters re's [\w\s-] keeps, over the letters the sheets below use
IsWordSpaceDash(c) ==
    \/ IsSpace(c)
    \/ c \in {"-", "_"}
    \/ c \in {"a", "b", "c", "n", "o", "t", "u", "A", "B", "C", "N", "O", "T", "U",
              "0", "1", "2"}

RECURSIVE KeepWordSpaceDash(_)
KeepWordSpaceDash(s) ==
    IF s = <<>> THEN <<>>
    ELSE IF IsWordSpaceDash(Head(s)) THEN <<Head(s)>> \o KeepWordSpaceDash(Tail(s))
    ELSE KeepWordSpaceDash(Tail(s))

\* s[:n]
Prefix(s, n) == SubSeq(s, 1, Min(Len(s), n))

\* sanitize_text(text, sanitize)
sanitize_text(text, sanitize) ==
    IF sanitize THEN Prefix(KeepWordSpaceDash(Strip(text)), 100)
    ELSE Prefix(Strip(text), 100)

\* "button", the header marker of line 295
ButtonWord == <<"b", "u", "t", "t", "o", "n">>

\* the fixed placeholder of line 307 ("text not found in Google Sheets", in
\* Russian in the source), one opaque token
Placeholder == <<"<text not found in Google Sheets>">>

(* ------------------------------- dicts -------------------------------- *)
DictKeys(d) == {d[i].k : i \in 1..Len(d)}
DictHas(d, key) == key \in DictKeys(d)
DictIndex(d, key) == CHOOSE i \in 1..Len(d) : d[i].k = key
DictGet(d, key) == d[DictIndex(d, key)].v
\* d.setdefault(key, val): the first value stays
DictSetDefault(d, key, val) ==
    IF DictHas(d, key) THEN d ELSE Append(d, [k |-> key, v |-> val])

\* d[key] = val : an existing key keeps its position
DictSet(d, key, val) ==
    IF DictHas(d, key)
    THEN [d EXCEPT ![DictIndex(d, key)] = [k |-> key, v |-> val]]
    ELSE Append(d, [k |-> key, v |-> val])
\* d.setdefault(key, []).append(item)
DictAppendTo(d, key, item) ==
    IF DictHas(d, key)
    THEN [d EXCEPT ![DictIndex(d, key)] = [k |-> key, v |-> Append(@.v, item)]]
    ELSE Append(d, [k |-> key, v |-> <<item>>])

(* ------------------------------ parsing ------------------------------- *)
\* lines 295-296: the header row is dropped
StripHeader(values) ==
    IF Len(values[1]) < 3 \/ Lower(values[1][2]) = ButtonWord
    THEN Tail(values) ELSE values

\* a loop body that takes a row of two columns as a row with an empty body
ParseRowPadsShort(acc, row) ==
    IF Len(row) < 2 THEN acc
    ELSE [acc EXCEPT !.texts = DictSet(@, sanitize_text(row[2], FALSE), Placeholder)]

\* lines 303-312: one iteration of the loop over the rows
ParseRow(acc, row) ==
    IF Len(row) < 3 THEN acc
    ELSE LET parent == IF row[1] # <<>> THEN sanitize_text(row[1], FALSE) ELSE <<>>
             button == sanitize_text(row[2], FALSE)
             text   == IF Strip(row[3]) # <<>> THEN Strip(row[3]) ELSE Placeholder
             tx     == DictSet(acc.texts, button, text)
         IN  IF parent = <<>>
             THEN [acc EXCEPT !.texts = tx,
                              !.main_buttons = Append(@, button)]
             ELSE [acc EXCEPT !.texts = tx,
                              !.submenus = DictAppendTo(@, parent, button)]

RECURSIVE ParseRows(_, _)
ParseRows(acc, rows) ==
    IF rows = <<>> THEN acc ELSE ParseRows(ParseRow(acc, Head(rows)), Tail(rows))

\* lines 298-300: the three fresh structures
EmptyParse == [main_buttons |-> <<>>, submenus |-> <<>>, texts |-> <<>>]

\* lines 295-312
ParseValues(values) == ParseRows(EmptyParse, StripHeader(values))

\* lines 314-315: one row per button
Keyboard(buttons) == [i \in 1..Len(buttons) |-> <<buttons[i]>>]

(* ------------------------------ the sheet ----------------------------- *)
\* what spreadsheets.values.get can return for Guides!A:C: the documents the
\* sheet is edited between
SheetDocs == <<
    \* a header row, a top-level label and a child
    << << <<"P">>, <<"B","u","t","t","o","n">>, <<"T">> >>,
       << <<>>, <<"A">>, <<"t","1">> >>,
       << <<"A">>, <<"B">>, <<"t","2">> >> >>,
    \* an empty range
    << >>,
    \* no header, a repeated label, a short row, a blank body
    << << <<>>, <<"A">>, <<"t","1">> >>,
       << <<" ">>, <<"A">>, <<" ","t","2"," ">> >>,
       << <<"A">>, <<"C">> >>,
       << <<"A">>, <<" ","C"," ">>, <<" "," ">> >> >>
>>

Docs == 1..Len(SheetDocs)

\* a child label of 31 two-byte characters ("zh" stands for one Cyrillic letter):
\* 62 bytes, so that "sub|" and the label do not fit into 64 bytes
LongLabel == [i \in 1..31 |-> "zh"]

\* the documents the range can hold when the chat of a user is followed
MenuDocs == <<
    \* a header row, a top-level label, and its children: a short label, a long
    \* one, and a row whose button column is empty
    << << <<"P">>, <<"B","u","t","t","o","n">>, <<"T">> >>,
       << <<>>, <<"A">>, <<"t","1">> >>,
       << <<"A">>, <<"B">>, <<" ","t","2"," ">> >>,
       << <<"A">>, LongLabel, <<"t","3">> >>,
       << <<"A">>, <<>>, <<"t","4">> >> >>,
    \* a header row and no data row
    << << <<"P">>, <<"B","u","t","t","o","n">>, <<"T">> >> >>
>>

MenuDocIds == (Len(SheetDocs) + 1)..(Len(SheetDocs) + Len(MenuDocs))

\* result.get("values", []) when the range holds document d
Document(d) == IF d \in Docs THEN SheetDocs[d] ELSE MenuDocs[d - Len(SheetDocs)]

(* ------------------------------- state -------------------------------- *)
VARIABLES
    phase,               \* "boot": module loaded; "startup": on_startup runs; "serving"
    SHEETS_SERVICE,      \* truthiness of the global
    DRIVE_SERVICE,       \* truthiness of the global
    main_buttons,        \* [obj, val]: the list object and its value
    submenus,            \* [obj, val]
    texts,               \* [obj, val]
    main_menu,           \* [none, obj, val]: None, or the ReplyKeyboardMarkup
    last_modified_time,  \* None (0) or a modifiedTime
    cache,               \* TTLCache(maxsize=1, ttl=300): [present, entry]
    sheet,               \* provider: the document the range holds now
    modifiedTime,        \* provider: Drive's modifiedTime of the file
    tasks,               \* the coroutines: invocation -> locals and position
    loop,                \* the slot running on the event loop, 0 when it is free
    gen,                 \* row fetches parsed so far: the identity of the objects built
    served_mtime,        \* modifiedTime at the row fetch of the tree swapped in last
    chat,                \* the chat of one user: session, last answer, submenu on screen
    probe,               \* a fetched range and what lines 295-312 make of it
    now,                 \* time.time(), in seconds
    sessions,            \* sessions.db: user_id -> expiry, 0 for no row
    rate_limit,          \* user_id -> the times of the updates that passed the limiter
    last_messages,       \* user_id -> the messages recorded for deletion
    handlers,            \* the handler coroutines: slot -> update, locals and position
    wire,                \* the messages the latest step sent to users
    hist,                \* history: accepted passcodes, resets, updates fed
    provider,            \* "flaky": a call can end in any outcome; "up": it succeeds
    phone                \* phone.py: an input of check_phone and how far the call is

\* the state of the access gate: sessions, limiter, handlers and their messages
gate == <<now, sessions, rate_limit, last_messages, handlers, wire, hist>>

vars == <<phase, SHEETS_SERVICE, DRIVE_SERVICE, main_buttons, submenus, texts,
          main_menu, last_modified_time, cache, sheet, modifiedTime, tasks, loop,
          gen, served_mtime, chat, probe, gate, provider, phone>>

Tasks == 1..MaxCalls
Users == 1..MaxUsers
Slots == 1..MaxHandlers

\* last_modified_time = None
None == 0

\* main_menu = None
NoMenu == [none |-> TRUE, obj |-> 0, val |-> <<>>]

\* no entry under "guides_data"
NoEntry == [present |-> FALSE, entry |-> <<>>]

\* what a provider call can end in: a result, HttpError 429, HttpError with
\* another status, an SSL / "EOF occurred" / "Broken pipe" error, any other exception
Outcomes == {"ok", "429", "http", "transport", "exc"}
Transient == {"429", "transport"}

\* line 277
max_retries == 4

\* a loop that stops one attempt early: range(1, max_retries)
MoreAttemptsOneShort(attempt) == attempt < max_retries - 1

\* line 279: for attempt in range(1, max_retries + 1) has an iteration after this one
MoreAttempts(attempt) == attempt < max_retries

\* the globals a load_guides step reads and writes, as one value
Glob == [main_buttons |-> main_buttons, submenus |-> submenus, texts |-> texts,
         main_menu |-> main_menu, last_modified_time |-> last_modified_time,
         cache |-> cache, gen |-> gen, served_mtime |-> served_mtime]

\* the tuple line 317 stores and lines 270, 331, 346 unpack
EntryOf(g) == <<g.main_buttons, g.submenus, g.texts, g.main_menu>>

\* lines 270, 331, 346: main_buttons, submenus, texts, main_menu = cache[cache_key]
Unpack(g) ==
    [g EXCEPT !.main_buttons = g.cache.entry[1], !.submenus = g.cache.entry[2],
              !.texts = g.cache.entry[3], !.main_menu = g.cache.entry[4]]

\* lines 329-333 and 344-348: the last attempt failed
RestoreFromCache(g) ==
    IF g.cache.present THEN Unpack(g) ELSE [g EXCEPT !.main_menu = NoMenu]

\* a store that keeps the entry the cache holds already
StoreInCacheKeepOld(g) ==
    IF g.cache.present THEN g
    ELSE [g EXCEPT !.cache = [present |-> TRUE, entry |-> EntryOf(g)]]

\* line 317: cache[cache_key] = (main_buttons, submenus, texts, main_menu)
StoreInCache(g) == [g EXCEPT !.cache = [present |-> TRUE, entry |-> EntryOf(g)]]

\* a swap that fills the dict texts already is, instead of binding a fresh one
SwapTreeTextsInPlace(g, values, mt) ==
    LET p  == ParseValues(values)
        id == g.gen + 1
    IN  [g EXCEPT !.main_buttons = [obj |-> id, val |-> p.main_buttons],
                  !.submenus = [obj |-> id, val |-> p.submenus],
                  !.texts = [obj |-> @.obj, val |-> p.texts],
                  !.main_menu = [none |-> FALSE, obj |-> id,
                                 val |-> Keyboard(p.main_buttons)],
                  !.cache = [present |-> TRUE,
                             entry |-> <<[obj |-> id, val |-> p.main_buttons],
                                         [obj |-> id, val |-> p.submenus],
                                         [obj |-> g.texts.obj, val |-> p.texts],
                                         [none |-> FALSE, obj |-> id,
                                          val |-> Keyboard(p.main_buttons)]>>],
                  !.gen = id,
                  !.served_mtime = mt]

\* lines 291-319 on a non-empty range: fresh objects, the keyboard, the cache
\* entry; mt is the provider's modifiedTime at the fetch
SwapTree(g, values, mt) ==
    LET p  == ParseValues(values)
        id == g.gen + 1
    IN  StoreInCache(
            [g EXCEPT !.main_buttons = [obj |-> id, val |-> p.main_buttons],
                      !.submenus = [obj |-> id, val |-> p.submenus],
                      !.texts = [obj |-> id, val |-> p.texts],
                      !.main_menu = [none |-> FALSE, obj |-> id,
                                     val |-> Keyboard(p.main_buttons)],
                      !.gen = id,
                      !.served_mtime = mt])

\* a check that never finds the version unchanged
VersionNeverUnchanged(lmt, current) == FALSE

\* line 284
VersionUnchanged(lmt, current) == lmt # None /\ lmt = current

\* line 655
ChangeDetected(lmt, current) == current # None /\ (lmt = None \/ lmt # current)

\* a 429 sleep of five seconds on top of the delay
SleepFor429Added(delay) == 5 + delay

\* line 324: the sleep after a 429
SleepFor429(delay) == Max(5, delay)

\* lines 325, 340, 351
NextDelay(delay) == Min(delay * 2, 10)

\* line 321 alone, without the except Exception of line 335
CatchesHttpErrorOnly(out) == out \in {"429", "http"}

\* the except clauses of lines 321 and 335 between them: HttpError, and Exception
CatchesError(out) == out \in {"429", "http"} \/ out \in {"transport", "exc"}

\* the locals of a coroutine that is not running
IdleTask ==
    [kind |-> "none", pc |-> "idle", force |-> FALSE, attempt |-> 0, delay |-> 0,
     cur |-> None, lastSleep |-> 0, lastOut |-> "none", calls |-> 0,
     allTransient |-> TRUE, prevErr |-> "none", lmtWritten |-> FALSE,
     ret |-> "none"]

\* a coroutine whose load_guides call has ended
DoneTask(how) == [IdleTask EXCEPT !.pc = "done", !.ret = how]

\* a coroutine about to call load_guides(force)
NewTask(kind, force) == [IdleTask EXCEPT !.kind = kind, !.pc = "enter", !.force = force]

InLoadGuides(tk) == tk.pc \in {"version", "fetch", "sleep"}
InFlight(tk) == tk.pc \notin {"idle", "done"}

\* no message exchanged yet with the user, who has no session
NoAnswer == [what |-> "none", text |-> <<>>, menu |-> <<>>, inline |-> <<>>]
NoChat == [access |-> FALSE, reply |-> NoAnswer, pending |-> <<>>]

\* no range under the parser
NoProbe == [values |-> <<>>, parsed |-> FALSE, tree |-> EmptyParse]

\* a handler slot with no update in it
IdleHandler ==
    [user |-> 0, kind |-> "none", pc |-> "idle", txt |-> <<>>, btn |-> <<>>, task |-> 0,
     sent |-> <<>>]

\* no passcode accepted, no reset, no update fed, no handler ended
NoHist ==
    [granted_at |-> [u \in Users |-> -1], reset_since |-> [u \in Users |-> FALSE],
     resent |-> [u \in Users |-> FALSE], passed |-> [u \in Users |-> <<>>],
     fed |-> 0, last |-> [user |-> 0, kind |-> "none", how |-> "none"]]

\* check_phone not called
NoPhone ==
    [input |-> <<>>, pc |-> "idle", normalized |-> <<>>, calls |-> <<>>,
     numlookup |-> "none", smsmobile |-> "none", ok |-> "none"]

\* lines 102-111 and the coroutines, none started
InitGlobals ==
    /\ phase = "boot"
    /\ SHEETS_SERVICE = FALSE
    /\ DRIVE_SERVICE = FALSE
    /\ main_buttons = [obj |-> 0, val |-> <<>>]
    /\ submenus = [obj |-> 0, val |-> <<>>]
    /\ texts = [obj |-> 0, val |-> <<>>]
    /\ main_menu = NoMenu
    /\ last_modified_time = None
    /\ cache = NoEntry
    /\ modifiedTime = 1
    /\ tasks = [t \in Tasks |-> IdleTask]
    /\ loop = 0
    /\ gen = 0
    /\ served_mtime = None
    /\ now = 0
    /\ sessions = [u \in Users |-> 0]
    /\ rate_limit = [u \in Users |-> <<>>]
    /\ last_messages = [u \in Users |-> <<>>]
    /\ handlers = [h \in Slots |-> IdleHandler]
    /\ wire = <<>>
    /\ hist = NoHist

Init ==
    /\ InitGlobals
    /\ sheet = 1
    /\ chat = NoChat
    /\ probe = NoProbe
    /\ provider = "flaky"
    /\ phone = NoPhone

(* ------------------------- answers to the user ------------------------ *)
\* message.answer(...) / send_album_and_text(...): which message, its text where
\* it comes from the sheet, the rows of the reply keyboard passed as
\* reply_markup (none for None), the buttons of the inline keyboard
Answer(what, menu) ==
    [what |-> what, text |-> <<>>, menu |-> IF menu.none THEN <<>> ELSE menu.val,
     inline |-> <<>>]

\* lines 246-252 of send_album_and_text: the guide text, under the main menu
GuideAnswer(guide_text, menu) == [Answer("guide", menu) EXCEPT !.text = guide_text]

\* not main_menu (lines 401, 458): None is falsy, a ReplyKeyboardMarkup never is
MenuFalsy(menu) == menu.none

\* "infobot", line 456
Passcode == <<"i", "n", "f", "o", "b", "o", "t">>

\* len(c.encode("utf-8")) of one character
Utf8Width(c) == IF c = "zh" THEN 2 ELSE 1

RECURSIVE Utf8Len(_)
Utf8Len(s) == IF s = <<>> THEN 0 ELSE Utf8Width(Head(s)) + Utf8Len(Tail(s))

\* hashlib.sha1(label.encode("utf-8")).hexdigest(), on the labels of the documents
\* above: distinct labels, distinct digests
Sha1Hex(s) ==
    CASE s = LongLabel -> <<"d", "1">>
      [] s = <<"A">> -> <<"d", "2">>
      [] s = <<"B">> -> <<"d", "3">>
      [] s = <<"C">> -> <<"d", "4">>
      [] s = <<>> -> <<"d", "5">>
      [] OTHER -> <<"d", "0">>

SubBar == <<"s", "u", "b", "|">>
SubHash == <<"s", "u", "b", "#">>

\* str.startswith
StartsWith(s, p) == Len(s) >= Len(p) /\ SubSeq(s, 1, Len(p)) = p

\* lines 361-365: the callback_data of the button of a child
CallbackData(btn) ==
    IF Utf8Len(SubBar \o btn) <= 64 THEN SubBar \o btn
    ELSE SubHash \o Prefix(Sha1Hex(btn), 32)

\* build_submenu_inline(parent) on the dict subs: None, or one button per child
build_submenu_inline(subs, parent) ==
    IF ~DictHas(subs, parent) THEN [none |-> TRUE, buttons |-> <<>>]
    ELSE [none |-> FALSE,
          buttons |-> [i \in 1..Len(DictGet(subs, parent)) |->
                          [text |-> DictGet(subs, parent)[i],
                           callback_data |-> CallbackData(DictGet(subs, parent)[i])]]]

\* lines 518-521: the first key of texts whose digest starts with h, else None
RECURSIVE FirstKeyByHash(_, _)
FirstKeyByHash(tx, h) ==
    IF tx = <<>> THEN <<>>
    ELSE IF StartsWith(Sha1Hex(Head(tx).k), h) THEN Head(tx).k
    ELSE FirstKeyByHash(Tail(tx), h)

\* a decoder that cuts the digest one character early: data[3:]
DecodeButtonCutsEarly(data, tx) ==
    IF StartsWith(data, SubBar) THEN SubSeq(data, 5, Len(data))
    ELSE IF StartsWith(data, SubHash) THEN FirstKeyByHash(tx, SubSeq(data, 4, Len(data)))
    ELSE <<>>

\* lines 512-521: btn of a callback; None and "" are both <<>>, both falsy
DecodeButton(data, tx) ==
    IF StartsWith(data, SubBar) THEN SubSeq(data, 5, Len(data))
    ELSE IF StartsWith(data, SubHash) THEN FirstKeyByHash(tx, SubSeq(data, 5, Len(data)))
    ELSE <<>>

\* dict.get(key, default)
DictGetOr(d, key, default) == IF DictHas(d, key) THEN DictGet(d, key) ELSE default

\* What the caller of load_guides does after it, up to its next await, to the chat
\* of the user followed.  Lines 532-535 for that user's click, lines 431-434 for
\* that user's /reload, line 431 for the /reload of anybody else; an exception
\* would end the callback at lines 537-539 and a /reload at once.
AfterLoad(tk, g, how) ==
    CASE tk.kind = "click" ->
           [chat EXCEPT !.pending = <<>>,
                        !.reply = IF how = "raised" THEN Answer("error", g.main_menu)
                                  ELSE GuideAnswer(
                                           Strip(DictGetOr(g.texts.val, chat.pending,
                                                           Placeholder)),
                                           g.main_menu)]
      [] tk.kind = "chat_reload" /\ how # "raised" ->
           [chat EXCEPT !.access = FALSE,
                        !.reply = Answer("updated", NoMenu)]
      [] tk.kind = "reload" /\ how # "raised" -> [chat EXCEPT !.access = FALSE]
      [] OTHER -> chat

(* ------------------------------ plumbing ------------------------------ *)
SetGlob(g) ==
    /\ main_buttons' = g.main_buttons
    /\ submenus' = g.submenus
    /\ texts' = g.texts
    /\ main_menu' = g.main_menu
    /\ last_modified_time' = g.last_modified_time
    /\ cache' = g.cache
    /\ gen' = g.gen
    /\ served_mtime' = g.served_mtime

\* the first statement of a loop iteration: line 282 when not forced, else line 288
FirstCall(tk) == IF tk.force THEN "fetch" ELSE "version"

\* One provider call of a load_guides invocation and its outcome.  lastOut is
\* the outcome of the latest call of the current run on the event loop.  History
\* of the invocation: calls counts the provider calls of a forced invocation,
\* allTransient says that every call so far failed with a transient condition.
Called(tk, out) ==
    [tk EXCEPT !.lastOut = out,
               !.calls = IF tk.force THEN @ + 1 ELSE @,
               !.allTransient = @ /\ out \in Transient]

\* the coroutine goes on, holding the event loop or suspended at an await
Continue(t, g, tk, hold) ==
    /\ SetGlob(g)
    /\ tasks' = [tasks EXCEPT ![t] =
                    [tk EXCEPT !.lmtWritten =
                                   @ \/ g.last_modified_time # last_modified_time]]
    /\ loop' = IF hold THEN t ELSE 0
    /\ UNCHANGED <<phase, SHEETS_SERVICE, DRIVE_SERVICE, sheet, modifiedTime, chat,
                   probe, gate, provider, phone>>

\* load_guides is left and its caller runs on to its next await: line 658 of the
\* periodic job, line 637 of on_startup.  how: "returned" by a return statement
\* (lines 271, 275, 285, 294, 319), "failed" when the loop ended by the break of
\* line 334 or 349, "exhausted" when it ran out after the last sleep (load_guides
\* returns None all the same), "raised" for an exception.
Leave(t, g, tk, how) ==
    LET g2 == IF tk.kind = "periodic" /\ how # "raised"
              THEN [g EXCEPT !.last_modified_time = tk.cur] ELSE g
    IN  /\ SetGlob(g2)
        /\ tasks' = [tasks EXCEPT ![t] = DoneTask(how)]
        /\ loop' = 0
        /\ phase' = IF tk.kind = "startup" THEN "serving" ELSE phase
        /\ chat' = AfterLoad(tk, g2, how)
        /\ UNCHANGED <<SHEETS_SERVICE, DRIVE_SERVICE, sheet, modifiedTime, probe, gate, provider, phone>>

\* asyncio.sleep(d) of the retry loop, then the new delay.  History: prevErr is
\* the failure behind this sleep while every call so far failed transiently.
Sleep(t, g, tk, d) ==
    Continue(t, g, [tk EXCEPT !.pc = "sleep", !.lastSleep = d,
                              !.delay = NextDelay(tk.delay),
                              !.prevErr = IF tk.allTransient THEN tk.lastOut ELSE "none",
                              !.lastOut = "none"], FALSE)

\* lines 321-351: the provider call of attempt tk.attempt ended in error `out`
HandleError(t, g, tk, out) ==
    IF ~CatchesError(out) THEN Leave(t, g, tk, "raised")
    ELSE CASE out = "429" -> Sleep(t, g, tk, SleepFor429(tk.delay))
           [] out = "http" ->
                IF tk.attempt = max_retries
                THEN Leave(t, RestoreFromCache(g), tk, "failed")
                ELSE Continue(t, g, [tk EXCEPT !.attempt = @ + 1,
                                               !.pc = FirstCall(tk)], TRUE)
           [] out = "transport" -> Sleep(t, g, tk, tk.delay)
           [] OTHER ->
                IF tk.attempt = max_retries
                THEN Leave(t, RestoreFromCache(g), tk, "failed")
                ELSE Sleep(t, g, tk, tk.delay)

(* ----------------------------- load_guides ---------------------------- *)
\* the outcomes the provider has for a call now
ProviderOutcomes == IF provider = "up" THEN {"ok"} ELSE Outcomes

\* lines 281-286: the Drive call of a non-forced attempt; tk holds the locals
DoVersion(t, g, tk0) ==
    \E out \in ProviderOutcomes :
        LET tk == Called(tk0, out) IN
        IF out # "ok" THEN HandleError(t, g, tk, out)
        ELSE IF VersionUnchanged(g.last_modified_time, modifiedTime)
        THEN Leave(t, g, tk, "returned")
        ELSE Continue(t, [g EXCEPT !.last_modified_time = modifiedTime],
                      [tk EXCEPT !.pc = "fetch"], TRUE)

\* lines 288-319: the Sheets call, the parse and the swap
DoFetch(t, g, tk0) ==
    \E out \in ProviderOutcomes :
        LET tk == Called(tk0, out) IN
        IF out # "ok" THEN HandleError(t, g, tk, out)
        ELSE IF Document(sheet) = <<>>
        THEN Leave(t, g, tk, "returned")
        ELSE \E swapped \in {SwapTree(g, Document(sheet), modifiedTime)} :
                 Leave(t, swapped, tk, "returned")

\* line 279: an iteration starts with its first provider call
DoAttempt(t, g, tk) == IF tk.force THEN DoFetch(t, g, tk) ELSE DoVersion(t, g, tk)

\* lines 268-279: the TTL cache, the services, the first iteration
Enter(t) ==
    /\ tasks[t].pc = "enter"
    /\ loop \in {0, t}
    /\ LET tk == tasks[t] IN
       IF cache.present /\ ~tk.force
       THEN Leave(t, Unpack(Glob), tk, "returned")
       ELSE IF ~SHEETS_SERVICE \/ ~DRIVE_SERVICE
       THEN Leave(t, Glob, tk, "returned")
       ELSE DoAttempt(t, Glob, [tk EXCEPT !.attempt = 1, !.delay = 1,
                                          !.pc = FirstCall(tk)])

\* the iteration that follows a non-429 HttpError at once (no await between)
Version(t) ==
    /\ tasks[t].pc = "version"
    /\ loop = t
    /\ DoVersion(t, Glob, tasks[t])

\* the row fetch after the Drive call of the same iteration, or the iteration
\* that follows a non-429 HttpError at once
Fetch(t) ==
    /\ tasks[t].pc = "fetch"
    /\ loop = t
    /\ DoFetch(t, Glob, tasks[t])

\* asyncio.sleep returns: the next iteration of line 279, or the end of the loop
Wake(t) ==
    /\ tasks[t].pc = "sleep"
    /\ loop = 0
    /\ LET tk == tasks[t] IN
       IF MoreAttempts(tk.attempt)
       THEN DoAttempt(t, Glob, [tk EXCEPT !.attempt = @ + 1, !.pc = FirstCall(tk)])
       ELSE Leave(t, Glob, tk, "exhausted")

(* ------------------------------ callers ------------------------------- *)
\* lines 606-633: the services, last_modified_time = None, ensure_webhook awaited,
\* then load_guides(force=True)
OnStartup ==
    /\ phase = "boot"
    /\ phase' = "startup"
    /\ SHEETS_SERVICE' = TRUE
    /\ DRIVE_SERVICE' = TRUE
    /\ last_modified_time' = None
    /\ tasks' = [tasks EXCEPT ![1] = NewTask("startup", TRUE)]
    /\ UNCHANGED <<main_buttons, submenus, texts, main_menu, cache, sheet,
                   modifiedTime, loop, gen, served_mtime, chat, probe, gate, provider, phone>>

\* the event loop starts the next coroutine, in the first unused slot
CanStart(t) ==
    /\ phase = "serving"
    /\ loop = 0
    /\ tasks[t].pc = "idle"
    /\ \A u \in 1..(t - 1) : tasks[u].pc # "idle"

Start(t, kind, force) ==
    /\ CanStart(t)
    /\ tasks' = [tasks EXCEPT ![t] = NewTask(kind, force)]
    /\ UNCHANGED <<phase, SHEETS_SERVICE, DRIVE_SERVICE, main_buttons, submenus, texts,
                   main_menu, last_modified_time, cache, sheet, modifiedTime, loop,
                   gen, served_mtime, chat, probe, gate, provider, phone>>

\* lines 411-428: cmd_reload up to its load_guides(force=True)
StartReload(t) == Start(t, "reload", TRUE)

\* lines 488-531: process_callback, with access and a label texts does not hold,
\* up to its load_guides(force=True)
StartCallback(t) == Start(t, "callback", TRUE)

\* a call of load_guides() with the default force=False
StartCall(t) == Start(t, "call", FALSE)

\* lines 649-658 and 669: the job's Drive call; a change calls load_guides(force=True)
\* in the same run of the event loop.  APScheduler runs one instance of a job at a time.
PeriodicTick(t) ==
    /\ CanStart(t)
    /\ \A u \in Tasks : ~(InFlight(tasks[u]) /\ tasks[u].kind = "periodic")
    /\ UNCHANGED <<phase, SHEETS_SERVICE, DRIVE_SERVICE, main_buttons, submenus, texts,
                   main_menu, cache, sheet, modifiedTime, gen, served_mtime, chat,
                   probe, gate, provider, phone>>
    /\ \E out \in ProviderOutcomes :
         IF out # "ok"
         THEN /\ tasks' = [tasks EXCEPT ![t] = DoneTask("failed")]
              /\ UNCHANGED <<last_modified_time, loop>>
         ELSE IF ChangeDetected(last_modified_time, modifiedTime)
         THEN /\ tasks' = [tasks EXCEPT ![t] =
                              [NewTask("periodic", TRUE) EXCEPT !.cur = modifiedTime]]
              /\ loop' = t
              /\ UNCHANGED last_modified_time
         ELSE /\ tasks' = [tasks EXCEPT ![t] = DoneTask("returned")]
              /\ last_modified_time' = modifiedTime
              /\ UNCHANGED loop

(* ---------------------------- environment ----------------------------- *)
\* An edit or an expiry while a coroutine holds the event loop is told apart from
\* one just before that run only between two provider calls of the run of which
\* the first returned a result: the Drive call and the row fetch that follows it.
EnvMayAct ==
    IF loop = 0 THEN TRUE
    ELSE tasks[loop].pc = "enter" \/ (tasks[loop].pc = "fetch" /\ tasks[loop].lastOut = "ok")

\* the sheet is edited: Drive's modifiedTime moves on
EditSheet ==
    /\ EnvMayAct
    /\ modifiedTime <= MaxEdits
    /\ modifiedTime' = modifiedTime + 1
    /\ sheet' \in Docs
    /\ UNCHANGED <<phase, SHEETS_SERVICE, DRIVE_SERVICE, main_buttons, submenus, texts,
                   main_menu, last_modified_time, cache, tasks, loop, gen,
                   served_mtime, chat, probe, gate, provider, phone>>

\* 300 seconds have passed since line 317 stored the entry
ExpireCache ==
    /\ loop = 0
    /\ cache.present
    /\ cache' = NoEntry
    /\ UNCHANGED <<phase, SHEETS_SERVICE, DRIVE_SERVICE, main_buttons, submenus, texts,
                   main_menu, last_modified_time, sheet, modifiedTime, tasks, loop,
                   gen, served_mtime, chat, probe, gate, provider, phone>>

\* the program as deployed: every load_guides call in src/bot.py passes force=True
Next ==
    \/ OnStartup
    \/ \E t \in Tasks : StartReload(t)
    \/ \E t \in Tasks : StartCallback(t)
    \/ \E t \in Tasks : PeriodicTick(t)
    \/ \E t \in Tasks : Enter(t)
    \/ \E t \in Tasks : Fetch(t)
    \/ \E t \in Tasks : Wake(t)
    \/ EditSheet
    \/ ExpireCache

Spec == Init /\ [][Next]_vars

\* the program, and load_guides called with its default force=False as well
ApiNext ==
    \/ Next
    \/ \E t \in Tasks : StartCall(t)
    \/ \E t \in Tasks : Version(t)

ApiSpec == Init /\ [][ApiNext]_vars

(* ------------------- the periodic job running for ever ---------------- *)
\* a finished coroutine is forgotten; its slot serves the next one
Reap(t) ==
    /\ tasks[t].pc = "done"
    /\ tasks' = [tasks EXCEPT ![t] = IdleTask]
    /\ UNCHANGED <<phase, SHEETS_SERVICE, DRIVE_SERVICE, main_buttons, submenus, texts,
                   main_menu, last_modified_time, cache, sheet, modifiedTime, loop,
                   gen, served_mtime, chat, probe, gate, provider, phone>>

\* the provider recovers: from now on every call brings a result
Recover ==
    /\ provider = "flaky"
    /\ provider' = "up"
    /\ UNCHANGED <<phase, SHEETS_SERVICE, DRIVE_SERVICE, main_buttons, submenus, texts,
                   main_menu, last_modified_time, cache, sheet, modifiedTime, tasks,
                   loop, gen, served_mtime, chat, probe, gate, phone>>

\* startup, the sheet's editor, the provider, and the job of line 673
LiveNext ==
    \/ OnStartup
    \/ \E t \in Tasks : PeriodicTick(t)
    \/ \E t \in Tasks : Enter(t)
    \/ \E t \in Tasks : Fetch(t)
    \/ \E t \in Tasks : Wake(t)
    \/ \E t \in Tasks : Reap(t)
    \/ EditSheet
    \/ Recover

\* the states in which Enter, Fetch and Wake can take a step
EnterEnabled == \E t \in Tasks : tasks[t].pc = "enter" /\ loop \in {0, t}
FetchEnabled == \E t \in Tasks : tasks[t].pc = "fetch" /\ loop = t
WakeEnabled == \E t \in Tasks : tasks[t].pc = "sleep" /\ loop = 0

\* the interval trigger keeps firing, sleeps end, coroutines run on, and the
\* provider recovers in the end.  The weak fairness of Enter, Fetch and Wake is
\* written out, with the enabling conditions above.
LiveSpec ==
    /\ Init
    /\ [][LiveNext]_vars
    /\ WF_vars(OnStartup)
    /\ WF_vars(\E t \in Tasks : PeriodicTick(t))
    /\ WF_vars(\E t \in Tasks : Reap(t))
    /\ WF_vars(Recover)
    /\ ([]<>(~EnterEnabled) \/ []<><<\E t \in Tasks : Enter(t)>>_vars)
    /\ ([]<>(~FetchEnabled) \/ []<><<\E t \in Tasks : Fetch(t)>>_vars)
    /\ ([]<>(~WakeEnabled) \/ []<><<\E t \in Tasks : Wake(t)>>_vars)

(* --------------------------- the user's chat -------------------------- *)
\* the handlers' frame: only the chat changes
OnlyChat ==
    UNCHANGED <<phase, SHEETS_SERVICE, DRIVE_SERVICE, main_buttons, submenus, texts,
                main_menu, last_modified_time, cache, sheet, modifiedTime, tasks,
                loop, gen, served_mtime, probe, gate, provider, phone>>

\* a handler runs from one await to the next while no other coroutine does
HandlerRuns == phase = "serving" /\ loop = 0

\* lines 391-409: cmd_start, below the rate limit
CmdStart ==
    /\ HandlerRuns
    /\ chat' = [chat EXCEPT !.reply =
                    IF ~chat.access THEN Answer("enter_code", NoMenu)
                    ELSE IF MenuFalsy(main_menu) THEN Answer("not_loaded", NoMenu)
                    ELSE Answer("main_menu", main_menu)]
    /\ OnlyChat

\* lines 469-484: main_handler's answer to the text txt of a user with access
MenuAnswer(txt) ==
    IF \E i \in 1..Len(main_buttons.val) : main_buttons.val[i] = txt
    THEN IF DictHas(submenus.val, txt)
         THEN LET submenu == build_submenu_inline(submenus.val, txt) IN
              IF ~submenu.none
              THEN [Answer("submenu", NoMenu) EXCEPT !.text = txt,
                                                 !.inline = submenu.buttons]
              ELSE Answer("no_submenu", main_menu)
         ELSE GuideAnswer(Strip(DictGetOr(texts.val, txt, Placeholder)), main_menu)
    ELSE Answer("use_buttons", main_menu)

\* lines 512-534: what process_callback does with the callback data of a user
\* with access: an answer at once, or load_guides(force=True) for the label btn
ClickResult(data) ==
    LET btn == DecodeButton(data, texts.val) IN
    IF btn = <<>>
    THEN [load |-> FALSE, btn |-> btn, reply |-> Answer("not_found", main_menu)]
    ELSE IF DictHas(texts.val, btn)
    THEN [load |-> FALSE, btn |-> btn,
          reply |-> GuideAnswer(Strip(DictGet(texts.val, btn)), main_menu)]
    ELSE [load |-> TRUE, btn |-> btn, reply |-> NoAnswer]

\* the texts the user types: the passcode, a top-level label, a child label
Typed == {Passcode, <<" ", "A">>, <<"B">>}

\* lines 438-486: main_handler on a text message, below the rate limit
SendText(text) ==
    /\ HandlerRuns
    /\ LET txt == Strip(text) IN
       IF ~chat.access
       THEN /\ txt = Passcode
            /\ chat' = [chat EXCEPT !.access = TRUE,
                                    !.reply = IF MenuFalsy(main_menu)
                                              THEN Answer("not_loaded", main_menu)
                                              ELSE Answer("granted", main_menu)]
       ELSE chat' = [chat EXCEPT !.reply = MenuAnswer(txt)]
    /\ OnlyChat

\* lines 489-535: process_callback for a button of the inline keyboard on the
\* user's screen, below the rate limit; a label texts does not hold goes to
\* load_guides(force=True) at line 531 in coroutine t
Click(t, data) ==
    /\ HandlerRuns
    /\ chat.pending = <<>>
    /\ LET r == ClickResult(data) IN
       IF ~chat.access
       THEN /\ chat' = [chat EXCEPT !.reply = Answer("expired", main_menu)]
            /\ UNCHANGED tasks
       ELSE IF ~r.load
       THEN /\ chat' = [chat EXCEPT !.reply = r.reply]
            /\ UNCHANGED tasks
       ELSE /\ CanStart(t)
            /\ chat' = [chat EXCEPT !.pending = r.btn]
            /\ tasks' = [tasks EXCEPT ![t] = NewTask("click", TRUE)]
    /\ UNCHANGED <<phase, SHEETS_SERVICE, DRIVE_SERVICE, main_buttons, submenus, texts,
                   main_menu, last_modified_time, cache, sheet, modifiedTime, loop,
                   gen, served_mtime, probe, gate, provider, phone>>

\* the user presses a button of the submenu on the screen
Press(t) ==
    \E i \in 1..Len(chat.reply.inline) : Click(t, chat.reply.inline[i].callback_data)

\* lines 411-428: cmd_reload of the user, below the rate limit, up to its
\* load_guides(force=True)
CmdReload(t) == Start(t, "chat_reload", TRUE)

UiInit ==
    /\ InitGlobals
    /\ sheet \in MenuDocIds
    /\ chat = NoChat
    /\ probe = NoProbe
    /\ provider = "flaky"
    /\ phone = NoPhone

\* one user's chat, the loads it causes, the periodic job and the sheet's editor
UiNext ==
    \/ OnStartup
    \/ CmdStart
    \/ \E text \in Typed : SendText(text)
    \/ \E t \in Tasks : Press(t)
    \/ \E t \in Tasks : CmdReload(t)
    \/ \E t \in Tasks : PeriodicTick(t)
    \/ \E t \in Tasks : Enter(t)
    \/ \E t \in Tasks : Fetch(t)
    \/ \E t \in Tasks : Wake(t)
    \/ EditSheet

UiSpec == UiInit /\ [][UiNext]_vars

(* -------------------- sessions, the limiter, the handlers ------------- *)
\* line 132: a session lasts 30 minutes
SessionSeconds == 1800
\* lines 393-394: at most RateMax updates in WindowSeconds
WindowSeconds == 60
RateMax == 10

\* a test that lets a session live through its last second
has_access_to_the_end(db, user_id, t) == db[user_id] # 0 /\ db[user_id] >= t

\* lines 124-129: a row, and its expiry still ahead
has_access(db, user_id, t) == db[user_id] # 0 /\ db[user_id] > t

\* lines 131-136: INSERT OR REPLACE
grant_access(db, user_id, t) == [db EXCEPT ![user_id] = t + SessionSeconds]

\* lines 139-143: DELETE FROM sessions
reset_all_sessions(db) == [u \in DOMAIN db |-> 0]

\* line 393: the times less than a window old
Pruned(stamps, t) == SelectSeq(stamps, LAMBDA x : t - x < WindowSeconds)

\* a test that lets one more update through
LimitedAboveMax(stamps) == Len(stamps) > RateMax

\* line 394
Limited(stamps) == Len(stamps) >= RateMax

\* an assignment that keeps the list when there is nothing to record
RecordSentIfAny(lm, user_id, ids) ==
    IF ids = <<>> THEN lm ELSE [lm EXCEPT ![user_id] = ids]

\* lines 406, 409, 435, 486, 535: last_messages[user_id] = ...
RecordSent(lm, user_id, ids) == [lm EXCEPT ![user_id] = ids]

\* the message_ids of the messages sent
Ids(sent) == [i \in 1..Len(sent) |-> "message_id"]

\* a message to a user: which one
Message(u, what) == [to |-> u, what |-> what]

\* the texts typed: the passcode, and a top-level label
GateTexts == {Passcode, <<" ", "A">>}

\* the updates a user sends: /start, /reload, a text, a press on the button of B
Updates ==
    {[kind |-> "start", txt |-> <<>>], [kind |-> "reload", txt |-> <<>>],
     [kind |-> "callback", txt |-> CallbackData(<<"B">>)]}
    \cup {[kind |-> "text", txt |-> x] : x \in GateTexts}

\* the clock moves by these steps while sessions are followed, and by these
\* while the limiter is
SessionSteps == {SessionSeconds \div 2, SessionSeconds - 1}
RateSteps == {WindowSeconds \div 2}

\* what the handlers of updates leave alone until they call load_guides
LoaderUnchanged ==
    UNCHANGED <<phase, SHEETS_SERVICE, DRIVE_SERVICE, main_buttons, submenus, texts,
                main_menu, last_modified_time, cache, sheet, modifiedTime, gen,
                served_mtime, chat, probe, provider, phone>>

\* a handler has ended
Ended(hd, how) == [user |-> hd.user, kind |-> hd.kind, how |-> how]

\* await message.answer(...) / send_album_and_text(...): the message goes out and
\* the handler is suspended until Telegram has answered
Send(h, what) ==
    /\ wire' = <<Message(handlers[h].user, what)>>
    /\ handlers' = [handlers EXCEPT ![h].pc = "sent", ![h].sent = Append(@, what)]

\* An update of user u reaches its handler in slot h (process_callback has awaited
\* callback.answer() before): the limiter of lines 393-397, 419-423, 440-444 and
\* 499-503, the has_access test of line 505, and on to the first await of
\* clear_old_messages.  At most `cap` updates are fed in a behaviour.
Feed(h, u, upd, cap) ==
    /\ HandlerRuns
    /\ hist.fed < cap
    /\ handlers[h].pc = "idle"
    /\ \A g \in 1..(h - 1) : handlers[g].pc # "idle"
    /\ LET stamps == Pruned(rate_limit[u], now)
           hd     == [IdleHandler EXCEPT !.user = u, !.kind = upd.kind]
       IN  IF Limited(stamps)
           THEN /\ rate_limit' = [rate_limit EXCEPT ![u] = stamps]
                /\ wire' = <<Message(u, "too_many")>>
                /\ hist' = [hist EXCEPT !.fed = @ + 1, !.last = Ended(hd, "rejected")]
                /\ UNCHANGED handlers
           ELSE /\ rate_limit' = [rate_limit EXCEPT ![u] = Append(stamps, now)]
                /\ IF upd.kind = "callback" /\ ~has_access(sessions, u, now)
                   THEN /\ wire' = <<Message(u, "expired")>>
                        /\ hist' = [hist EXCEPT !.fed = @ + 1,
                                                !.passed[u] = Append(@, now),
                                                !.last = Ended(hd, "expired")]
                        /\ UNCHANGED handlers
                   ELSE /\ wire' = <<>>
                        /\ hist' = [hist EXCEPT !.fed = @ + 1,
                                                !.passed[u] = Append(@, now)]
                        /\ handlers' = [handlers EXCEPT ![h] =
                              [hd EXCEPT !.txt = IF upd.kind = "text" THEN Strip(upd.txt)
                                                 ELSE upd.txt,
                                         !.pc = IF last_messages[u] # <<>> THEN "clear1"
                                                ELSE "clear2"]]
    /\ UNCHANGED <<now, sessions, last_messages, tasks, loop>>
    /\ LoaderUnchanged

\* lines 377-385: the bot's last message is deleted, the list emptied, and the
\* deletion of the user's message awaited
Clear1(h) ==
    /\ loop = 0
    /\ handlers[h].pc = "clear1"
    /\ last_messages' = [last_messages EXCEPT ![handlers[h].user] = <<>>]
    /\ handlers' = [handlers EXCEPT ![h].pc = "clear2"]
    /\ wire' = <<>>
    /\ UNCHANGED <<now, sessions, rate_limit, hist, tasks, loop>>
    /\ LoaderUnchanged

\* The handler runs on after clear_old_messages, to its next await: lines 400-409
\* of cmd_start, 427-428 of cmd_reload, 455-486 of main_handler, 511-534 of
\* process_callback.  A call of load_guides goes to coroutine t.
Body(h, t) ==
    /\ HandlerRuns
    /\ handlers[h].pc = "clear2"
    /\ LET hd     == handlers[h]
           u      == hd.user
           access == has_access(sessions, u, now)
           click  == ClickResult(hd.txt)
       IN  CASE hd.kind = "start" ->
                  /\ Send(h, IF ~access THEN "enter_code"
                             ELSE IF MenuFalsy(main_menu) THEN "not_loaded"
                             ELSE "main_menu")
                  /\ UNCHANGED <<sessions, last_messages, hist, tasks, loop>>
             [] hd.kind = "text" /\ ~access /\ hd.txt = Passcode ->
                  /\ sessions' = grant_access(sessions, u, now)
                  /\ hist' = [hist EXCEPT !.granted_at[u] = now,
                                          !.reset_since[u] = FALSE,
                                          !.resent[u] = FALSE]
                  /\ Send(h, IF MenuFalsy(main_menu) THEN "not_loaded" ELSE "granted")
                  /\ UNCHANGED <<last_messages, tasks, loop>>
             [] hd.kind = "text" /\ ~access /\ hd.txt # Passcode ->
                  /\ last_messages' = RecordSent(last_messages, u, Ids(hd.sent))
                  /\ handlers' = [handlers EXCEPT ![h] = IdleHandler]
                  /\ wire' = <<>>
                  /\ hist' = [hist EXCEPT !.last = Ended(hd, "ignored")]
                  /\ UNCHANGED <<sessions, tasks, loop>>
             [] hd.kind = "text" /\ access ->
                  /\ Send(h, MenuAnswer(hd.txt).what)
                  /\ hist' = [hist EXCEPT !.resent[u] = @ \/ hd.txt = Passcode]
                  /\ UNCHANGED <<sessions, last_messages, tasks, loop>>
             [] hd.kind = "callback" /\ click.load ->
                  /\ CanStart(t)
                  /\ tasks' = [tasks EXCEPT ![t] = NewTask("gate_callback", TRUE)]
                  /\ loop' = t
                  /\ handlers' = [handlers EXCEPT ![h].pc = "load", ![h].task = t,
                                                  ![h].btn = click.btn]
                  /\ wire' = <<>>
                  /\ UNCHANGED <<sessions, last_messages, hist>>
             [] hd.kind = "callback" /\ ~click.load /\ click.reply.what = "not_found" ->
                  /\ wire' = <<Message(u, "not_found")>>
                  /\ handlers' = [handlers EXCEPT ![h] = IdleHandler]
                  /\ hist' = [hist EXCEPT !.last = Ended(hd, "not_found")]
                  /\ UNCHANGED <<sessions, last_messages, tasks, loop>>
             [] hd.kind = "callback" /\ ~click.load /\ click.reply.what # "not_found" ->
                  /\ Send(h, click.reply.what)
                  /\ UNCHANGED <<sessions, last_messages, hist, tasks, loop>>
             [] hd.kind = "reload" ->
                  /\ CanStart(t)
                  /\ tasks' = [tasks EXCEPT ![t] = NewTask("gate_reload", TRUE)]
                  /\ loop' = t
                  /\ handlers' = [handlers EXCEPT ![h].pc = "load", ![h].task = t]
                  /\ wire' = <<>>
                  /\ UNCHANGED <<sessions, last_messages, hist>>
    /\ UNCHANGED <<now, rate_limit>>
    /\ LoaderUnchanged

\* load_guides has returned to the handler in slot h
Resumable(h) == handlers[h].pc = "load" /\ tasks[handlers[h].task].pc = "done"

\* the caller of load_guides runs on in the same run of the event loop
Busy == \E h \in Slots : Resumable(h)

\* lines 431-434 of cmd_reload, lines 532-534 of process_callback
Resume(h) ==
    /\ Resumable(h)
    /\ IF handlers[h].kind = "reload"
       THEN /\ sessions' = reset_all_sessions(sessions)
            /\ hist' = [hist EXCEPT !.reset_since = [u \in Users |-> TRUE]]
            /\ Send(h, "updated")
       ELSE /\ Send(h, "guide")
            /\ UNCHANGED <<sessions, hist>>
    /\ UNCHANGED <<now, rate_limit, last_messages, tasks, loop>>
    /\ LoaderUnchanged

\* Telegram has answered: lines 406, 409, 435, 486, 535 record what was sent
Record(h) ==
    /\ loop = 0
    /\ handlers[h].pc = "sent"
    /\ last_messages' = RecordSent(last_messages, handlers[h].user, Ids(handlers[h].sent))
    /\ handlers' = [handlers EXCEPT ![h] = IdleHandler]
    /\ wire' = <<>>
    /\ hist' = [hist EXCEPT !.last = Ended(handlers[h], "answered")]
    /\ UNCHANGED <<now, sessions, rate_limit, tasks, loop>>
    /\ LoaderUnchanged

\* time passes while no coroutine runs
Tick(d, limit) ==
    /\ loop = 0
    /\ now + d <= limit
    /\ now' = now + d
    /\ wire' = <<>>
    /\ UNCHANGED <<sessions, rate_limit, last_messages, handlers, hist, tasks, loop>>
    /\ LoaderUnchanged

\* the service with a provider that answers
GateInit ==
    /\ InitGlobals
    /\ sheet = 1
    /\ chat = NoChat
    /\ probe = NoProbe
    /\ provider = "up"
    /\ phone = NoPhone

\* the updates of the users, their handlers from await to await, and the clock
GateNext ==
    \/ OnStartup
    \/ ~Busy /\ \E t \in Tasks : Enter(t)
    \/ ~Busy /\ \E h \in Slots, u \in Users, upd \in Updates : Feed(h, u, upd, MaxFeeds)
    \/ ~Busy /\ \E h \in Slots : Clear1(h)
    \/ ~Busy /\ \E h \in Slots, t \in Tasks : Body(h, t)
    \/ \E h \in Slots : Resume(h)
    \/ ~Busy /\ \E h \in Slots : Record(h)
    \/ ~Busy /\ \E d \in SessionSteps : Tick(d, MaxTime)

GateSpec == GateInit /\ [][GateNext]_vars

\* no update is being handled
Quiet == \A h \in Slots : handlers[h].pc = "idle"

\* user 1 floods the bot; the others write while it is at its limit
Flooding(u) == u = 1 \/ Limited(Pruned(rate_limit[1], now))

\* many updates in a short time, handled one after the other
RateNext ==
    \/ OnStartup
    \/ ~Busy /\ \E t \in Tasks : Enter(t)
    \/ Quiet /\ \E h \in Slots, u \in Users, upd \in Updates :
                   Flooding(u) /\ Feed(h, u, upd, MaxBurst)
    \/ ~Busy /\ \E h \in Slots : Clear1(h)
    \/ ~Busy /\ \E h \in Slots, t \in Tasks : Body(h, t)
    \/ \E h \in Slots : Resume(h)
    \/ ~Busy /\ \E h \in Slots : Record(h)
    \/ Quiet /\ \E d \in RateSteps : Tick(d, WindowSeconds)

RateSpec == GateInit /\ [][RateNext]_vars

(* ------------------------- the parser on its own ---------------------- *)
\* rows the range can hold: a label at top level twice with two bodies, a child,
\* header rows in two spellings, a short row, a label met again under another
\* parent with blanks around it and a blank body, a blank parent and empty body
RowChoices == {
    << <<>>, <<"A">>, <<"t","1">> >>,
    << <<>>, <<"A">>, <<"t","2">> >>,
    << <<"A">>, <<"B">>, <<" ","t","2"," ">> >>,
    << <<"P">>, <<"B","u","t","t","o","n">>, <<"T">> >>,
    << <<>>, <<"B","U","T","T","O","N">>, <<"t","1">> >>,
    << <<"A">>, <<"B">> >>,
    << <<"B">>, <<" ","A"," ">>, <<" "," ">> >>,
    << <<" ">>, <<"C">>, <<>> >> }

\* result.get("values", []) of line 291: up to MaxRows rows
RowSeqs == UNION {[1..n -> RowChoices] : n \in 0..MaxRows}

ParseInit ==
    /\ InitGlobals
    /\ sheet = 1
    /\ chat = NoChat
    /\ probe \in {[NoProbe EXCEPT !.values = v] : v \in RowSeqs}
    /\ provider = "flaky"
    /\ phone = NoPhone

\* lines 291-312 on probe.values: an empty range returns at line 294
Parse ==
    /\ ~probe.parsed
    /\ probe.values # <<>>
    /\ probe' = [probe EXCEPT !.parsed = TRUE, !.tree = ParseValues(probe.values)]
    /\ UNCHANGED <<phase, SHEETS_SERVICE, DRIVE_SERVICE, main_buttons, submenus, texts,
                   main_menu, last_modified_time, cache, sheet, modifiedTime, tasks,
                   loop, gen, served_mtime, chat, gate, provider, phone>>

ParseSpec == ParseInit /\ [][Parse]_vars

(* -------------------------- phone.py: check_phone --------------------- *)
\* re's \d, over the characters typed below
IsDigit(c) == c \in {"0", "1", "2", "7"}

\* re.sub(r"\D", "", s), and digits_only of line 44
RECURSIVE digits_only(_)
digits_only(s) ==
    IF s = <<>> THEN <<>>
    ELSE IF IsDigit(Head(s)) THEN <<Head(s)>> \o digits_only(Tail(s))
    ELSE digits_only(Tail(s))

\* lines 25-41
normalize_number(user_input) ==
    LET s == Strip(user_input) IN
    IF s = <<>> THEN <<>>
    ELSE IF Head(s) = "+"
    THEN IF digits_only(Tail(s)) # <<>> THEN <<"+">> \o digits_only(Tail(s)) ELSE <<"+">>
    ELSE digits_only(s)

\* number.lstrip("+") of line 61
RECURSIVE LStripPlus(_)
LStripPlus(s) == IF s # <<>> /\ Head(s) = "+" THEN LStripPlus(Tail(s)) ELSE s

\* a test that lets "+" through
InvalidOnlyIfEmpty(normalized) == normalized = <<>>

\* line 97: not normalized or normalized in {"+", ""}
Invalid(normalized) == normalized = <<>> \/ normalized \in {<<"+">>, <<>>}

\* what requests.get brings: a 2xx answer, another status, a RequestException
LookupOutcomes == {"ok", "status", "error"}

\* the characters of an input: a plus sign, a digit, a blank, a dash, a letter
InputChars == {"+", "7", " ", "-", "a"}

Inputs == UNION {[1..n -> InputChars] : n \in 0..MaxInput}

PhoneFrame ==
    UNCHANGED <<phase, SHEETS_SERVICE, DRIVE_SERVICE, main_buttons, submenus, texts,
                main_menu, last_modified_time, cache, sheet, modifiedTime, tasks,
                loop, gen, served_mtime, chat, probe, gate, provider>>

PhoneInit ==
    /\ InitGlobals
    /\ sheet = 1
    /\ chat = NoChat
    /\ probe = NoProbe
    /\ provider = "flaky"
    /\ phone \in {[NoPhone EXCEPT !.input = i] : i \in Inputs}

\* lines 96-102: check_phone up to its first query
CheckPhone ==
    /\ phone.pc = "idle"
    /\ LET normalized == normalize_number(phone.input) IN
       phone' = IF Invalid(normalized)
                THEN [phone EXCEPT !.pc = "done", !.normalized = normalized,
                                   !.ok = "False"]
                ELSE [phone EXCEPT !.pc = "numlookup", !.normalized = normalized]
    /\ PhoneFrame

\* line 104 and lines 56-69: the request to numlookupapi and its result
QueryNumlookup ==
    /\ phone.pc = "numlookup"
    /\ \E out \in LookupOutcomes :
          phone' = [phone EXCEPT
                      !.pc = "smsmobile",
                      !.calls = Append(@, [api |-> "numlookup",
                                           number |-> LStripPlus(phone.normalized)]),
                      !.numlookup = out]
    /\ PhoneFrame

\* lines 105-112 and 72-88: the request to smsmobileapi, then the result of both
QuerySmsmobile ==
    /\ phone.pc = "smsmobile"
    /\ \E out \in LookupOutcomes :
          phone' = [phone EXCEPT
                      !.pc = "done",
                      !.calls = Append(@, [api |-> "smsmobile",
                                           number |-> digits_only(phone.normalized)]),
                      !.smsmobile = out,
                      !.ok = "True"]
    /\ PhoneFrame

PhoneNext == CheckPhone \/ QueryNumlookup \/ QuerySmsmobile

PhoneSpec == PhoneInit /\ [][PhoneNext]_vars

(* ------------------------------ the claims ---------------------------- *)
\* what handlers read: lines 400-406, 469-484, 518-534
Served == <<main_buttons, submenus, texts, main_menu>>

\* the load_guides call or periodic job of t ends in this step
Ends(t) == tasks[t].pc # "done" /\ tasks'[t].pc = "done"

\* C1: once a load has succeeded, a step that swaps in no newly parsed tree (every
\* step of a load_guides call that fails, whatever the error kind and whether or
\* not the TTL entry has expired) leaves main_buttons, submenus, texts and
\* main_menu as they were.
C1_FailedLoadKeepsServed ==
    [][(gen > 0 /\ gen' = gen) => Served' = Served]_vars

C3_NoSwapKeepsToken ==
    [][\A t \in Tasks :
          (Ends(t) /\ gen' = gen) =>
              (~tasks[t].lmtWritten /\ last_modified_time' = last_modified_time)]_vars

\* C4: whenever a tree has been loaded and no coroutine is in the middle of a run,
\* last_modified_time is the provider modifiedTime that was current at the row
\* fetch of the served tree.
C4_TokenIsServedTreesVersion ==
    (loop = 0 /\ gen > 0) => last_modified_time = served_mtime

\* C5: after a provider call of a load_guides invocation failed with an HTTP
\* status other than 429, that invocation makes no further provider call.
C5_NoCallAfterHttpError ==
    [][\A t \in Tasks :
          tasks'[t].calls = tasks[t].calls + 1 => tasks[t].lastOut # "http"]_vars

\* C6: a forced load_guides call every provider call of which fails transiently
\* (429 or transport error) makes exactly four calls and then ends without a swap:
\* after fewer than four such calls its next step makes one more call (it ends
\* there only by what that call brought, never by running out of attempts), after
\* four it runs out with no further call and the served globals as they were.
C6_FourCallsThenGiveUp ==
    [][\A t \in Tasks :
          (tasks[t].force /\ tasks[t].pc = "sleep" /\ tasks[t].allTransient
             /\ tasks'[t] # tasks[t]) =>
              IF tasks[t].calls < 4
              THEN \/ InFlight(tasks'[t]) /\ tasks'[t].calls = tasks[t].calls + 1
                   \/ tasks'[t].pc = "done" /\ tasks'[t].ret \in {"returned", "failed"}
              ELSE /\ tasks[t].calls = 4
                   /\ tasks'[t].pc = "done" /\ tasks'[t].ret = "exhausted"
                   /\ gen' = gen
                   /\ Served' = Served]_vars

\* C6's case: four calls made, all failed transiently, the last sleep running
C6_Witness ==
    \E t \in Tasks :
        /\ tasks[t].force /\ tasks[t].pc = "sleep"
        /\ tasks[t].allTransient /\ tasks[t].calls = 4

\* a load_guides call all of whose provider calls failed transiently starts a sleep
NewSleep(t) ==
    /\ tasks'[t].pc = "sleep"
    /\ tasks'[t] # tasks[t]
    /\ tasks'[t].allTransient

\* C7 as stated: in a load_guides call whose attempts all fail transiently, in any
\* mix of 429 and transport errors, each sleep is at least as long as the sleep
\* before it and none is longer than 10 seconds.
C7_SleepsNeverShrink ==
    [][\A t \in Tasks :
          NewSleep(t) =>
              /\ tasks'[t].lastSleep <= 10
              /\ tasks'[t].lastSleep >= tasks[t].lastSleep]_vars

\* C7 amended: none is longer than 10 seconds, and each is at least as long as
\* the sleep before it unless that one followed a 429 and this one follows a
\* transport error.
C7_SleepsShrinkOnlyAfter429 ==
    [][\A t \in Tasks :
          NewSleep(t) =>
              /\ tasks'[t].lastSleep <= 10
              /\ \/ tasks'[t].lastSleep >= tasks[t].lastSleep
                 \/ tasks[t].prevErr = "429" /\ tasks'[t].prevErr = "transport"]_vars

\* C7's case: the sleep after a transport error that follows the sleep after a 429
C7_Witness ==
    \E t \in Tasks :
        /\ tasks[t].pc = "sleep" /\ tasks[t].allTransient
        /\ tasks[t].attempt = 2 /\ tasks[t].prevErr = "transport"
        /\ tasks[t].lastSleep = 2

\* what is left of a load_guides call: iterations not yet begun, then the position
\* in the current one
Rank(tk) ==
    CASE tk.pc = "done" -> 0
      [] tk.pc = "sleep" -> (4 - tk.attempt) * 4 + 1
      [] tk.pc = "fetch" -> (4 - tk.attempt) * 4 + 2
      [] tk.pc = "version" -> (4 - tk.attempt) * 4 + 3
      [] OTHER -> 20

C9_OneRefreshInFlight ==
    Cardinality({t \in Tasks : InFlight(tasks[t]) /\ tasks[t].calls >= 1}) <= 1

\* C10: the objects served never go back to those of an earlier row fetch:
\* objects are numbered by fetch, and no step lowers the number of main_buttons,
\* submenus or texts, nor puts an older keyboard in place of a newer one.
C10_NoStaleAfterFresh ==
    [][/\ main_buttons'.obj >= main_buttons.obj
       /\ submenus'.obj >= submenus.obj
       /\ texts'.obj >= texts.obj
       /\ main_menu'.none \/ main_menu'.obj >= main_menu.obj]_vars

\* C10's case: a second tree was swapped in while another load_guides call, begun
\* before, waits for its retry
C10_Witness ==
    /\ gen >= 2
    /\ main_buttons.obj = gen
    /\ \E t \in Tasks : tasks[t].pc = "sleep"

\* the three structures as line 298-312 leave them for the rows `values`
TreeOf(values) ==
    LET p == ParseValues(values)
    IN  <<p.main_buttons, p.submenus, p.texts>>

\* C11: in every state, main_buttons, submenus and texts are objects of one and
\* the same row fetch, and their values are the whole parse of one document the
\* range has held (or the three empty structures the module starts with): no
\* coroutine can see two fetches mixed or a partly iterated row sequence.
C11_NoTornTree ==
    /\ main_buttons.obj = submenus.obj
    /\ submenus.obj = texts.obj
    /\ \/ main_buttons.obj = 0
             /\ <<main_buttons.val, submenus.val, texts.val>> = <<<<>>, <<>>, <<>>>>
       \/ \E d \in Docs :
             /\ SheetDocs[d] # <<>>
             /\ <<main_buttons.val, submenus.val, texts.val>> = TreeOf(SheetDocs[d])

\* C11's case: the event loop is free for a handler while one load_guides call
\* is suspended in its retry sleep and a tree of a second fetch is served
C11_Witness ==
    /\ loop = 0
    /\ texts.obj >= 2
    /\ \E t \in Tasks : tasks[t].pc = "sleep" /\ tasks[t].calls >= 1

(* claims about the parser, on the range probe.values and its tree *)
\* the label a row carries in its second column
LabelOf(row) == sanitize_text(row[2], FALSE)

\* the rows, by index, that have three columns and carry `label`
RowsOf(values, label) ==
    {i \in 1..Len(values) : Len(values[i]) >= 3 /\ LabelOf(values[i]) = label}

\* the last of them in sheet order
LastRowOf(values, label) ==
    CHOOSE i \in RowsOf(values, label) : \A j \in RowsOf(values, label) : j <= i

\* a body that is empty or all white space
Blank(body) == \A i \in 1..Len(body) : IsSpace(body[i])

\* the text a body stands for
BodyText(body) == IF Blank(body) THEN Placeholder ELSE Strip(body)

\* "button" in any mix of upper and lower case
CaselessButton(s) ==
    /\ Len(s) = 6
    /\ s[1] \in {"b", "B"} /\ s[2] \in {"u", "U"} /\ s[3] \in {"t", "T"}
    /\ s[4] \in {"t", "T"} /\ s[5] \in {"o", "O"} /\ s[6] \in {"n", "N"}

\* the sequence without its i-th element
Remove(seq, i) == SubSeq(seq, 1, i - 1) \o SubSeq(seq, i + 1, Len(seq))

\* the tree of a range: an empty range gives the three empty structures
TreeOfRows(values) == IF values = <<>> THEN EmptyParse ELSE ParseValues(values)

\* C12: after a load each label occurs at most once in main_buttons.
C12_TopLevelLabelsOnce ==
    probe.parsed =>
        \A i, j \in 1..Len(probe.tree.main_buttons) :
            i # j => probe.tree.main_buttons[i] # probe.tree.main_buttons[j]

\* C13: after a load, for every key of texts, the value is the text of the body
\* of the last row, among the fetched rows of three columns or more, that
\* carries that label, whatever the parents of the rows that share the label.
C13_LastRowGivesText ==
    probe.parsed =>
        \A k \in 1..Len(probe.tree.texts) :
            LET label == probe.tree.texts[k].k IN
            /\ RowsOf(probe.values, label) # {}
            /\ probe.tree.texts[k].v =
                   BodyText(probe.values[LastRowOf(probe.values, label)][3])

\* C13's case: two rows under different parents share a label and differ in body
C13_Witness ==
    /\ probe.parsed
    /\ \E i, j \in 2..Len(probe.values) :
          /\ i < j
          /\ Len(probe.values[i]) >= 3 /\ Len(probe.values[j]) >= 3
          /\ LabelOf(probe.values[i]) = LabelOf(probe.values[j])
          /\ probe.values[i][1] # probe.values[j][1]
          /\ BodyText(probe.values[i][3]) # BodyText(probe.values[j][3])

\* C14: if the first fetched row has fewer than 3 columns or has 'button', in any
\* case, as its second column, the tree is that of the rows after it, each parsed
\* as data; otherwise the tree is that of all rows, the first one parsed as data.
C14_HeaderRow ==
    probe.parsed =>
        LET first == probe.values[1]
            hdr   == Len(first) < 3 \/ CaselessButton(first[2])
        IN  probe.tree = ParseRows(EmptyParse,
                                   IF hdr THEN Tail(probe.values) ELSE probe.values)

\* C14's case: a header row spelled with capitals, and data rows after it
C14_Witness ==
    /\ probe.parsed
    /\ Len(probe.values) >= 2
    /\ Len(probe.values[1]) >= 3
    /\ CaselessButton(probe.values[1][2])
    /\ probe.values[1][2] # ButtonWord
    /\ probe.tree.texts # <<>>

\* C15 as stated: the tree of a range with a row of fewer than 3 columns is the
\* tree of the same rows without that row.
C15_ShortRowAsIfRemoved ==
    probe.parsed =>
        \A i \in 1..Len(probe.values) :
            Len(probe.values[i]) < 3 =>
                probe.tree = TreeOfRows(Remove(probe.values, i))

\* a short first row followed by a header row
ShortBeforeHeader(values, i) ==
    /\ i = 1
    /\ Len(values) >= 2
    /\ Len(values[2]) >= 3
    /\ CaselessButton(values[2][2])

\* C15 amended: the same, except for a short first row followed by a header row:
\* there the short row is dropped in the header's place and the header row is
\* parsed as data.
C15_ShortRowUnlessBeforeHeader ==
    probe.parsed =>
        \A i \in 1..Len(probe.values) :
            Len(probe.values[i]) < 3 =>
                IF ShortBeforeHeader(probe.values, i)
                THEN /\ probe.tree = ParseRows(EmptyParse, Tail(probe.values))
                     /\ DictHas(probe.tree.texts, LabelOf(probe.values[2]))
                ELSE probe.tree = TreeOfRows(Remove(probe.values, i))

\* C15's case: a short row among rows that give a tree
C15_Witness ==
    /\ probe.parsed
    /\ probe.tree.texts # <<>>
    /\ \E i \in 2..Len(probe.values) : Len(probe.values[i]) < 3

\* C16: after a load every label of main_buttons and of every list of submenus
\* is a key of texts, no value of texts is empty, and the value is the
\* placeholder when the body of the row it comes from is empty or blank.
C16_LabelsHaveTexts ==
    probe.parsed =>
        LET tree == probe.tree IN
        /\ \A i \in 1..Len(tree.main_buttons) : DictHas(tree.texts, tree.main_buttons[i])
        /\ \A p \in 1..Len(tree.submenus) :
              \A i \in 1..Len(tree.submenus[p].v) :
                  DictHas(tree.texts, tree.submenus[p].v[i])
        /\ \A k \in 1..Len(tree.texts) :
              /\ tree.texts[k].v # <<>>
              /\ ~Blank(tree.texts[k].v)
              /\ Blank(probe.values[LastRowOf(probe.values, tree.texts[k].k)][3])
                    => tree.texts[k].v = Placeholder

\* C16's case: a tree with a child list and a row whose body is blank
C16_Witness ==
    /\ probe.parsed
    /\ probe.tree.submenus # <<>>
    /\ probe.tree.main_buttons # <<>>
    /\ \E k \in 1..Len(probe.tree.texts) : probe.tree.texts[k].v = Placeholder

(* claims about the chat *)
\* the top-level labels that have children in the served tree
Parents ==
    {main_buttons.val[i] : i \in 1..Len(main_buttons.val)} \cap DictKeys(submenus.val)

\* the answer to `parent` is the inline submenu of its children, in row order
ListsChildren(parent) ==
    LET a    == MenuAnswer(parent)
        kids == DictGet(submenus.val, parent)
    IN  /\ a.what = "submenu"
        /\ Len(a.inline) = Len(kids)
        /\ \A j \in 1..Len(kids) : a.inline[j].text = kids[j]

\* pressing the j-th button of the submenu of `parent` delivers the child's text
DeliversChild(parent, j) ==
    LET r == ClickResult(MenuAnswer(parent).inline[j].callback_data)
    IN  /\ ~r.load
        /\ r.reply.what = "guide"
        /\ r.reply.text = DictGet(texts.val, DictGet(submenus.val, parent)[j])

\* C17 as stated: whenever a user with access can be served, a top-level label
\* with children is answered by the submenu of exactly its children in row order,
\* and pressing any of its buttons delivers texts[child].
C17_SubmenuThenChildText ==
    (HandlerRuns /\ chat.access) =>
        \A parent \in Parents :
            /\ ListsChildren(parent)
            /\ \A j \in 1..Len(DictGet(submenus.val, parent)) : DeliversChild(parent, j)

\* C17 amended: the same for every child whose label is not empty; the button of
\* a child with an empty label is answered 'element not found'.
C17_SubmenuThenNonEmptyChildText ==
    (HandlerRuns /\ chat.access) =>
        \A parent \in Parents :
            /\ ListsChildren(parent)
            /\ \A j \in 1..Len(DictGet(submenus.val, parent)) :
                  IF DictGet(submenus.val, parent)[j] # <<>>
                  THEN DeliversChild(parent, j)
                  ELSE ClickResult(MenuAnswer(parent).inline[j].callback_data).reply.what
                           = "not_found"

\* C17's case: the user pressed the button of the long child label, sent as
\* 'sub#' and a digest, and was given that child's text
C17_Witness ==
    /\ chat.access
    /\ chat.reply.what = "guide"
    /\ chat.reply.text = <<"t", "3">>
    /\ DictHas(texts.val, LongLabel)

\* C18: when a click ends whose label the tree does not hold, the answer is the
\* 'element not found' message.
C18_StaleLabelNotFound ==
    [][(chat.pending # <<>> /\ chat'.pending = <<>>
          /\ ~DictHas(texts'.val, chat.pending)) =>
             chat'.reply.what = "not_found"]_vars

\* C19: no answer shows a main menu with zero buttons.
C19_NoEmptyMainMenu ==
    chat.reply.what \in {"main_menu", "granted"} => chat.reply.menu # <<>>

\* C20: when the load_guides call of the user's /reload ends without a tree
\* swapped in, the answer does not say that the bot was updated.
C20_ReloadReportsOutcome ==
    [][\A t \in Tasks :
          (tasks[t].kind = "chat_reload" /\ Ends(t) /\ gen' = gen) =>
              chat'.reply.what # "updated"]_vars
(* claims about /health *)
\* lines 557-559: /health answers 200 "healthy", not 503
health_check == SHEETS_SERVICE /\ DRIVE_SERVICE /\ last_modified_time # None

\* C25: /health answers healthy exactly in the states where both Google services
\* are initialised and a load_guides call has swapped in a tree.
C25_HealthyIffLoaded ==
    health_check <=> (SHEETS_SERVICE /\ DRIVE_SERVICE /\ gen > 0)
(* claims about check_phone *)
\* the input holds no digit
NoDigit(user_input) == \A i \in 1..Len(user_input) : ~IsDigit(user_input[i])

\* C27: the normalized number is "" or "+" exactly for an input with no digit;
\* for such an input check_phone calls no provider and returns ok=False; for any
\* other it calls numlookup and then smsmobile, once each, and returns ok=True with
\* both results, whatever the two queries brought.
C27_CheckPhone ==
    /\ normalize_number(phone.input) \in {<<>>, <<"+">>} <=> NoDigit(phone.input)
    /\ phone.pc = "smsmobile" =>
          /\ Len(phone.calls) = 1 /\ phone.calls[1].api = "numlookup"
          /\ ~NoDigit(phone.input)
    /\ phone.pc = "done" =>
          IF NoDigit(phone.input)
          THEN phone.ok = "False" /\ phone.calls = <<>>
          ELSE /\ phone.ok = "True"
               /\ Len(phone.calls) = 2
               /\ phone.calls[1].api = "numlookup" /\ phone.calls[2].api = "smsmobile"
               /\ phone.numlookup \in LookupOutcomes
               /\ phone.smsmobile \in LookupOutcomes

\* C27's case: a number with a plus sign and a digit, both queries failed
C27_Witness ==
    /\ phone.pc = "done"
    /\ phone.ok = "True"
    /\ Head(phone.normalized) = "+"
    /\ phone.numlookup = "error" /\ phone.smsmobile = "status"
(* claims about the periodic job *)
\* the sheet has been edited for the last time, it holds rows, and the provider
\* has recovered
Settled ==
    /\ provider = "up"
    /\ modifiedTime = MaxEdits + 1
    /\ Document(sheet) # <<>>

\* C23: once the sheet has been modified and the provider has recovered, the
\* periodic job sooner or later serves a tree fetched from the modified sheet,
\* whatever happened to the loads before.
C23_ModificationServedInTheEnd == Settled ~> (served_mtime = modifiedTime)

\* the passcode of user u is being accepted by main_handler in this step
Granting(u) ==
    \E h \in Slots :
        /\ handlers[h].user = u
        /\ handlers[h].kind = "text"
        /\ handlers[h].txt = Passcode
        /\ handlers[h].pc = "clear2"
        /\ handlers'[h].pc = "sent"
        /\ ~has_access(sessions, u, now)

\* cmd_reload is going on after its load in this step
Resetting ==
    \E h \in Slots :
        /\ handlers[h].kind = "reload"
        /\ handlers[h].pc = "load"
        /\ handlers'[h].pc = "sent"

\* C21: has_access(u) is true exactly when main_handler accepted the passcode of u,
\* sent while u had no access, less than 1800 seconds ago, and reset_all_sessions
\* has not run since; and a session changes only in such a step of main_handler
\* (to 1800 seconds from now) or in the reset of cmd_reload (to none): nothing
\* else creates, extends or removes one.
C21_AccessIffFreshPasscode ==
    /\ [](\A u \in Users :
            has_access(sessions, u, now) <=>
                /\ hist.granted_at[u] >= 0
                /\ now - hist.granted_at[u] < SessionSeconds
                /\ ~hist.reset_since[u])
    /\ [][\A u \in Users :
            sessions'[u] # sessions[u] =>
                \/ Granting(u) /\ sessions'[u] = now + SessionSeconds
                \/ Resetting /\ sessions'[u] = 0]_vars

\* a user whose passcode was accepted at 0, who sent it again while having access,
\* and who has no access 1800 seconds after the first
C21_Witness ==
    \E u \in Users :
        /\ hist.granted_at[u] = 0
        /\ hist.resent[u]
        /\ ~hist.reset_since[u]
        /\ now >= SessionSeconds
        /\ ~has_access(sessions, u, now)

\* the messages that show the main menu, a submenu or a guide
Content == {"main_menu", "submenu", "guide"}

\* C22: once cmd_reload has reset the sessions, no user is sent the main menu, a
\* submenu or a guide before main_handler has accepted their passcode again, the
\* handlers that were suspended at an await during the reset included.
C22_NoContentAfterReset ==
    \A i \in 1..Len(wire) :
        hist.reset_since[wire[i].to] => wire[i].what \notin Content

\* main_handler in slot h goes on in this step, from the limiter to its return,
\* without reaching an answer
TextStep(h) ==
    /\ handlers'[h] # handlers[h]
    /\ handlers[h].kind = "text" \/ handlers'[h].kind = "text"
    /\ handlers[h].pc # "sent"
    /\ handlers'[h].pc # "sent"

\* main_handler in slot h is past clear_old_messages with a text that is not the
\* passcode, of a user without access
Unwelcome(h) ==
    /\ handlers[h].kind = "text"
    /\ handlers[h].pc = "clear2"
    /\ handlers[h].txt # Passcode
    /\ ~has_access(sessions, handlers[h].user, now)

\* C26: when a user without access sends a text that is not the passcode,
\* main_handler changes no session, no served tree and no stored modification
\* token, sends no message, and returns at once leaving last_messages of the user
\* empty.
C26_TextWithoutAccessIgnored ==
    [][\A h \in Slots :
          /\ TextStep(h) =>
                /\ sessions' = sessions
                /\ Served' = Served
                /\ last_modified_time' = last_modified_time
                /\ wire' = <<>>
          /\ (Unwelcome(h) /\ handlers'[h] # handlers[h]) =>
                /\ TextStep(h)
                /\ handlers'[h] = IdleHandler
                /\ last_messages'[handlers[h].user] = <<>>]_vars

\* a text of a user whose session cmd_reload has reset was ignored, while another
\* handler of the same user waits for Telegram
C26_Witness ==
    \E u \in Users :
        /\ hist.last = [user |-> u, kind |-> "text", how |-> "ignored"]
        /\ hist.granted_at[u] >= 0
        /\ hist.reset_since[u]
        /\ last_messages[u] = <<>>
        /\ \E h \in Slots : handlers[h].user = u /\ handlers[h].pc = "sent"

\* the limiter turns an update away in this step
Rejecting == hist'.fed = hist.fed + 1 /\ hist'.passed = hist.passed

\* C24: for every user, of the updates that pass the limiter any eleven in a row
\* are at least 60 seconds apart from first to last, so that no window of 60
\* seconds holds more than 10; the list of the user holds every pass of the last 60
\* seconds, whichever of cmd_start, cmd_reload, main_handler and process_callback
\* it went to; and an update turned away adds nothing to a list, starts no load,
\* changes no session, no served tree, no handler and no last_messages, and is
\* answered by the notice of the limiter only.
C24_RateLimit ==
    /\ [](\A u \in Users :
            /\ \A i \in 1..Len(hist.passed[u]) :
                  i + RateMax <= Len(hist.passed[u]) =>
                      hist.passed[u][i + RateMax] - hist.passed[u][i] >= WindowSeconds
            /\ Pruned(rate_limit[u], now) = Pruned(hist.passed[u], now))
    /\ [][Rejecting =>
            /\ \A u \in Users : /\ Pruned(rate_limit'[u], now) = Pruned(rate_limit[u], now)
                                /\ Len(rate_limit'[u]) <= Len(rate_limit[u])
            /\ tasks' = tasks
            /\ sessions' = sessions
            /\ Served' = Served
            /\ handlers' = handlers
            /\ last_messages' = last_messages
            /\ \A i \in 1..Len(wire') : wire'[i].what = "too_many"]_vars

\* a button press of a user with access turned away, ten updates of that user
\* having passed in the last 60 seconds, a /reload among all that passed
C24_Witness ==
    \E u \in Users :
        /\ hist.last = [user |-> u, kind |-> "callback", how |-> "rejected"]
        /\ has_access(sessions, u, now)
        /\ gen >= 2
        /\ now > 0
        /\ Len(Pruned(rate_limit[u], now)) = RateMax
====
